---- MODULE Spec2Model ----
(***************************************************************************)
(* Model of Analyze-LoggerPlusPlus.py: main() and analyze_burp_log().      *)
(*                                                                         *)
(* Text is a sequence of one-character strings, so that lower(),           *)
(* endswith(), strip() and urlparse() are computed character by character. *)
(* A cell of a DataFrame is either NA (NaN / None / NaT / pd.NA) or a      *)
(* wrapped value.  A DataFrame is [cols, rows]; every row is a function    *)
(* from the frame's column names to cells.                                 *)
(***************************************************************************)
EXTENDS Naturals, Integers, Sequences, FiniteSets, TLC

\* ---------------------------------------------------------------- bounds
MaxRecords == 2
MaxFiles == 2

\* ----------------------------------------------------------------- cells
NA == [na |-> TRUE]
Val(x) == [na |-> FALSE, v |-> x]
IsNA(c) == c.na

\* ------------------------------------------------------------------ text
UpperCase == <<"A","B","C","D","E","F","G","H","I","J","K","L","M",
               "N","O","P","Q","R","S","T","U","V","W","X","Y","Z">>
LowerCase == <<"a","b","c","d","e","f","g","h","i","j","k","l","m",
               "n","o","p","q","r","s","t","u","v","w","x","y","z">>
UpperSet == {UpperCase[i] : i \in 1..26}
LowerSet == {LowerCase[i] : i \in 1..26}
ToLower == [c \in UpperSet |-> LowerCase[CHOOSE i \in 1..26 : UpperCase[i] = c]]
IsUpper(c) == c \in UpperSet
IsLetter(c) == c \in UpperSet \/ c \in LowerSet
IsDigit(c) == c \in {"0","1","2","3","4","5","6","7","8","9"}

\* str.lower() of one character and of a text
lower_char(c) == IF IsUpper(c) THEN ToLower[c] ELSE c
str_lower(s) == [i \in 1..Len(s) |-> lower_char(s[i])]

\* str.endswith(suffix)
endswith(s, suf) ==
    /\ Len(suf) <= Len(s)
    /\ SubSeq(s, Len(s) - Len(suf) + 1, Len(s)) = suf

\* str.endswith(tuple of suffixes)
endswith_any(s, sufs) == \E k \in 1..Len(sufs) : endswith(s, sufs[k])

\* str.strip(): leading and trailing blanks removed
RECURSIVE lstrip(_)
lstrip(s) == IF s # <<>> /\ Head(s) = " " THEN lstrip(Tail(s)) ELSE s
RECURSIVE rstrip(_)
rstrip(s) == IF s # <<>> /\ s[Len(s)] = " " THEN rstrip(SubSeq(s, 1, Len(s) - 1)) ELSE s
str_strip(s) == rstrip(lstrip(s))

\* index of the first character of s that lies in cs, 0 when there is none
FirstIndexIn(s, cs) ==
    IF \E i \in 1..Len(s) : s[i] \in cs
    THEN CHOOSE i \in 1..Len(s) : s[i] \in cs /\ \A j \in 1..(i - 1) : s[j] \notin cs
    ELSE 0
LastIndexIn(s, cs) ==
    IF \E i \in 1..Len(s) : s[i] \in cs
    THEN CHOOSE i \in 1..Len(s) : s[i] \in cs /\ \A j \in (i + 1)..Len(s) : s[j] \notin cs
    ELSE 0
Contains(s, c) == \E i \in 1..Len(s) : s[i] = c

\* ------------------------------------------------------------- urlparse
\* urlsplit(): the scheme is the text before the first ':' when it starts with
\* a letter and holds only scheme characters.
SchemeChars(c) == IsLetter(c) \/ IsDigit(c) \/ c \in {"+", "-", "."}
SchemeEnd(url) ==
    LET i == FirstIndexIn(url, {":"})
    IN  IF i > 1 /\ IsLetter(url[1]) /\ \A j \in 1..(i - 1) : SchemeChars(url[j])
        THEN i ELSE 0
AfterScheme(url) == SubSeq(url, SchemeEnd(url) + 1, Len(url))

\* netloc: what follows a leading '//' up to the first of '/', '?', '#'
HasNetloc(url) ==
    LET rest == AfterScheme(url)
    IN  Len(rest) >= 2 /\ rest[1] = "/" /\ rest[2] = "/"
Netloc(url) ==
    LET rest == AfterScheme(url)
        body == SubSeq(rest, 3, Len(rest))
        d    == FirstIndexIn(body, {"/", "?", "#"})
    IN  IF ~HasNetloc(url) THEN <<>>
        ELSE IF d = 0 THEN body ELSE SubSeq(body, 1, d - 1)

\* urlsplit raises ValueError("Invalid IPv6 URL") on an unbalanced bracket
urlparse_raises(url) ==
    LET n == Netloc(url)
    IN  HasNetloc(url) /\ (Contains(n, "[") # Contains(n, "]"))

\* ParseResult.hostname: netloc without userinfo and port, lower-cased; None
\* when it is empty
hostname(url) ==
    LET n     == Netloc(url)
        at    == LastIndexIn(n, {"@"})
        hp    == SubSeq(n, at + 1, Len(n))
        colon == FirstIndexIn(hp, {":"})
        host  == IF colon = 0 THEN hp ELSE SubSeq(hp, 1, colon - 1)
    IN  IF host = <<>> THEN NA ELSE Val(str_lower(host))

\* the lambda of line 115
TargetOf(cell) == IF IsNA(cell) THEN NA ELSE hostname(cell.v)

\* ------------------------------------------------------------ timestamps
IsLeap(y) == (y % 4 = 0 /\ y % 100 # 0) \/ y % 400 = 0
DaysIn(mo, y) ==
    IF mo = 2 THEN (IF IsLeap(y) THEN 29 ELSE 28)
    ELSE IF mo \in {4, 6, 9, 11} THEN 30 ELSE 31

\* A Request.Time text "a<sep>b<sep>c h:00:00 ap" is [sep, a, b, c, h, ap].
\* strptime with '%m/%d/%Y %I:%M:%S %p'
strptime_ok(t) ==
    /\ t.sep = "/"
    /\ t.a \in 1..12
    /\ t.b \in 1..DaysIn(t.a, t.c)
    /\ t.h \in 1..12
    /\ t.ap \in {"AM", "PM"}
strptime(t) ==
    [y |-> t.c, mo |-> t.a, d |-> t.b,
     H |-> (t.h % 12) + (IF t.ap = "PM" THEN 12 ELSE 0)]

\* pd.to_datetime(..., format=..., errors='coerce') on one cell
to_datetime(cell) ==
    IF IsNA(cell) THEN NA
    ELSE IF strptime_ok(cell.v) THEN Val(strptime(cell.v)) ELSE NA

\* A header block is a sequence of lines [name, val]; the line reads
\* "<name>: <val>".  val is [ok, d, mo, y, H, tz] for an RFC 2822 date text and
\* [ok |-> FALSE] for anything else.
DateText == <<"d", "a", "t", "e">>
IsDateLine(line) == str_lower(line.name) = DateText

\* Series.dt.tz_localize(None): the wall-clock time without its zone
tz_localize_none(dt) == [y |-> dt.y, mo |-> dt.mo, d |-> dt.d, H |-> dt.H]

\* email.utils.parsedate_to_datetime
parsedate_to_datetime(val) == [y |-> val.y, mo |-> val.mo, d |-> val.d, H |-> val.H, tz |-> val.tz]

extract_date_from_headers(cell) ==
    IF IsNA(cell) THEN NA
    ELSE LET lines == cell.v
             m     == FirstIndexIn([i \in 1..Len(lines) |-> IF IsDateLine(lines[i]) THEN "D" ELSE "-"], {"D"})
         IN  IF m = 0 THEN NA
             ELSE IF lines[m].val.ok THEN Val(parsedate_to_datetime(lines[m].val))
             ELSE NA

\* strftime('%Y-%m-%d') and strftime('%d/%m/%Y') of a date, as the fields in
\* the order they are printed
strftime_Ymd(dt) == <<dt.y, dt.mo, dt.d>>
\* the month-first '%m/%d/%Y' in place of '%d/%m/%Y'
strftime_mdY(dt) == <<dt.mo, dt.d, dt.y>>
strftime_dmY(dt) == <<dt.d, dt.mo, dt.y>>
\* Series.dt.date
dt_date(dt) == [y |-> dt.y, mo |-> dt.mo, d |-> dt.d]


\* ------------------------------------------------------------ DataFrames
URL == "Request.URL"
TOOL == "Request.Tool"
RTIME == "Request.Time"
RHEADERS == "Response.Headers"

\* The columns of DEFAULT_HEADERS that the program reads.
DEFAULT_HEADERS == {TOOL, RTIME, URL, RHEADERS}

\* pd.DataFrame()
EmptyFrame == [cols |-> {}, rows |-> <<>>]

\* DataFrame.empty: an axis of length 0
df_empty(df) == df.cols = {} \/ df.rows = <<>>

\* df[col] = vals (one cell per row): the column is added or overwritten
assign(df, col, vals) ==
    [cols |-> df.cols \cup {col},
     rows |-> [i \in 1..Len(df.rows) |->
                 [c \in df.cols \cup {col} |->
                     IF c = col THEN vals[i] ELSE df.rows[i][c]]]]

\* df.dropna(subset=[col])
dropna(df, col) ==
    LET Has(r) == ~IsNA(r[col])
    IN  [cols |-> df.cols, rows |-> SelectSeq(df.rows, Has)]

\* Series.value_counts().to_dict(): NA is not counted (dropna=True)
value_counts(rows, col) ==
    LET keys == {rows[i][col] : i \in {j \in 1..Len(rows) : ~IsNA(rows[j][col])}}
    IN  [k \in keys |-> Cardinality({i \in 1..Len(rows) : rows[i][col] = k})]

\* a groupby count that keeps NA as a key (a dict filled from iterrows)
count_by(rows, col) ==
    LET keys == {rows[i][col] : i \in 1..Len(rows)}
    IN  [k \in keys |-> Cardinality({i \in 1..Len(rows) : rows[i][col] = k})]

\* sum of the values of a dict of counts
RECURSIVE SumOver(_, _)
SumOver(f, ks) ==
    IF ks = {} THEN 0
    ELSE LET k == CHOOSE x \in ks : TRUE IN f[k] + SumOver(f, ks \ {k})
dict_sum(f) == SumOver(f, DOMAIN f)

\* pd.concat(all_dfs, ignore_index=True): the union of the columns, a cell
\* that a source lacks is NA
RECURSIVE concat_cols(_)
concat_cols(dfs) == IF dfs = <<>> THEN {} ELSE Head(dfs).cols \cup concat_cols(Tail(dfs))
widen(df, cols) ==
    [i \in 1..Len(df.rows) |-> [c \in cols |-> IF c \in df.cols THEN df.rows[i][c] ELSE NA]]
RECURSIVE concat_rows(_, _)
concat_rows(dfs, cols) ==
    IF dfs = <<>> THEN <<>> ELSE widen(Head(dfs), cols) \o concat_rows(Tail(dfs), cols)
pd_concat(dfs) == [cols |-> concat_cols(dfs), rows |-> concat_rows(dfs, concat_cols(dfs))]

RECURSIVE TotalRows(_)
TotalRows(dfs) == IF dfs = <<>> THEN 0 ELSE Len(Head(dfs).rows) + TotalRows(Tail(dfs))

\* ---------------------------------------------------------- record loader
\* A CSV file is [readable, header, cols, rows]: whether read_csv succeeds,
\* whether its first line names 'Entry.Tool' and 'Request.URL', the columns
\* its header names, and its data rows.
has_header(file) == file.readable /\ file.header

load_csv_safely(file) ==
    IF ~file.readable THEN EmptyFrame
    ELSE IF has_header(file)
         THEN [cols |-> file.cols,
               rows |-> [i \in 1..Len(file.rows) |-> [c \in file.cols |-> file.rows[i][c]]]]
         ELSE IF file.rows = <<>> THEN EmptyFrame
         ELSE [cols |-> DEFAULT_HEADERS, rows |-> file.rows]

\* ------------------------------------------------------- exclusion lists
\* str.split(','): the text between the commas
RECURSIVE split_comma(_)
split_comma(s) ==
    LET i == FirstIndexIn(s, {","})
    IN  IF i = 0 THEN <<s>>
        ELSE <<SubSeq(s, 1, i - 1)>> \o split_comma(SubSeq(s, i + 1, Len(s)))

\* [ext.strip().lower() for ext in s.split(',') if ext.strip()]
parse_extensions(s) ==
    LET parts == split_comma(s)
        NonBlank(x) == str_strip(x) # <<>>
        kept == SelectSeq(parts, NonBlank)
    IN  [k \in 1..Len(kept) |-> str_lower(str_strip(kept[k]))]

\* [tool.strip() for tool in s.split(',') if tool.strip()]
parse_tools(s) ==
    LET parts == split_comma(s)
        NonBlank(x) == str_strip(x) # <<>>
        kept == SelectSeq(parts, NonBlank)
    IN  [k \in 1..Len(kept) |-> str_strip(kept[k])]

\* ----------------------------------------------------------- filter stage
\* tuple(f".{ext.lower()}" for ext in exclude_extensions)
extensions_tuple(exts) == [k \in 1..Len(exts) |-> <<".">> \o str_lower(exts[k])]

\* ext_mask without .str.lower(): a case-sensitive suffix match
ext_mask_case_sensitive(row, exts) ==
    IF IsNA(row[URL]) THEN FALSE
    ELSE endswith_any(row[URL].v, extensions_tuple(exts))

\* df['Request.URL'].str.lower().str.endswith(extensions_tuple, na=False)
ext_mask(row, exts) ==
    IF IsNA(row[URL]) THEN FALSE
    ELSE endswith_any(str_lower(row[URL].v), extensions_tuple(exts))

\* df['Request.Tool'].isin(exclude_tools)
tool_mask(row, tools) ==
    /\ ~IsNA(row[TOOL])
    /\ \E k \in 1..Len(tools) : tools[k] = row[TOOL].v

\* df[~mask]: a new frame holding the rows the mask does not mark
filter_extensions(df, exts) ==
    LET Keep(r) == ~ext_mask(r, exts)
    IN  [cols |-> df.cols, rows |-> SelectSeq(df.rows, Keep)]
\* filter_tools written as a loop that removes rows from the list it iterates:
\* the row after a removed one is never tested
RECURSIVE remove_while_iterating(_, _)
remove_while_iterating(rows, tools) ==
    IF rows = <<>> THEN <<>>
    ELSE IF tool_mask(Head(rows), tools)
         THEN IF Len(rows) = 1 THEN <<>>
              ELSE <<rows[2]>> \o remove_while_iterating(SubSeq(rows, 3, Len(rows)), tools)
         ELSE <<Head(rows)>> \o remove_while_iterating(Tail(rows), tools)
filter_tools_in_place(df, tools) ==
    [cols |-> df.cols, rows |-> remove_while_iterating(df.rows, tools)]

filter_tools(df, tools) ==
    LET Keep(r) == ~tool_mask(r, tools)
    IN  [cols |-> df.cols, rows |-> SelectSeq(df.rows, Keep)]

\* lines 70-77 on a frame that has the columns the lists need
apply_filters(df, exts, tools) ==
    LET d1 == IF exts # <<>> THEN filter_extensions(df, exts) ELSE df
    IN  IF tools # <<>> THEN filter_tools(d1, tools) ELSE d1

\* the KeyError of df['Request.URL'] at line 72 and of df['Request.Tool'] at
\* line 76 on a missing column
url_key_error(df, exts) == exts # <<>> /\ URL \notin df.cols
tool_key_error(df, tools) == tools # <<>> /\ TOOL \notin df.cols

\* A Request.URL column without a single text value is read as float64, and
\* .str then raises AttributeError; where fillna(pd.NA) has made it an object
\* column, .str accepts it.  Which of the two holds depends on the pandas at
\* hand: object_dtype is that choice.
str_accessor_raises(df, exts, object_dtype) ==
    /\ exts # <<>>
    /\ URL \in df.cols
    /\ \A i \in 1..Len(df.rows) : IsNA(df.rows[i][URL])
    /\ ~object_dtype

\* the exception of lines 70-77, "none" when they run to their end
filter_exception(df, exts, tools, object_dtype) ==
    IF url_key_error(df, exts) THEN "KeyError"
    ELSE IF str_accessor_raises(df, exts, object_dtype) THEN "AttributeError"
    ELSE IF tool_key_error(df, tools) THEN "KeyError"
    ELSE "none"

\* whether lines 70-77 rebind df to a new frame
filter_rebinds(exts, tools) == exts # <<>> \/ tools # <<>>

\* for col in required_columns: if col not in df.columns
missing_required(df) == URL \notin df.cols \/ TOOL \notin df.cols


\* ------------------------------------------------------------ input data
\* "http://x/a.JS?x=1", "http://x/a.JS", "http://B/y", "/p", "http://[/"
u_query == <<"h", "t", "t", "p", ":", "/", "/", "x", "/", "a", ".", "J", "S", "?", "x", "=", "1">>
u_upper == <<"h", "t", "t", "p", ":", "/", "/", "x", "/", "a", ".", "J", "S">>
u_host == <<"h", "t", "t", "p", ":", "/", "/", "B", "/", "y">>
u_rel == <<"/", "p">>
u_bracket == <<"h", "t", "t", "p", ":", "/", "/", "[", "/">>
\* "Scanner", "scanner"
t_Scanner == <<"S", "c", "a", "n", "n", "e", "r">>
t_scanner == <<"s", "c", "a", "n", "n", "e", "r">>
\* header names "Date", "date", "DATE", "Server"; an HTTP Date header is in GMT
n_Date == <<"D", "a", "t", "e">>
n_date == <<"d", "a", "t", "e">>
n_DATE == <<"D", "A", "T", "E">>
n_Server == <<"S", "e", "r", "v", "e", "r">>

\* "01/02/2024 09:00:00 AM" (2 January), "02/01/2024 12:00:00 AM" (1 February),
\* "13/01/2024 09:00:00 AM" (a day-first export: no month 13)
rt_jan2 == [sep |-> "/", a |-> 1, b |-> 2, c |-> 2024, h |-> 9, ap |-> "AM"]
rt_feb1 == [sep |-> "/", a |-> 2, b |-> 1, c |-> 2024, h |-> 12, ap |-> "AM"]
rt_dayfirst == [sep |-> "/", a |-> 13, b |-> 1, c |-> 2024, h |-> 9, ap |-> "AM"]

\* "Tue, 02 Jan 2024 09:00:00 GMT", "Thu, 01 Feb 2024 23:00:00 GMT", "yesterday"
hd_jan2 == [ok |-> TRUE, d |-> 2, mo |-> 1, y |-> 2024, H |-> 9, tz |-> "GMT"]
hd_feb1 == [ok |-> TRUE, d |-> 1, mo |-> 2, y |-> 2024, H |-> 23, tz |-> "GMT"]
hd_text == [ok |-> FALSE]

h_jan2 == <<[name |-> n_Server, val |-> hd_text], [name |-> n_Date, val |-> hd_jan2]>>
h_feb1 == <<[name |-> n_date, val |-> hd_feb1]>>
h_badfirst == <<[name |-> n_Date, val |-> hd_text], [name |-> n_DATE, val |-> hd_jan2]>>
h_nodate == <<[name |-> n_Server, val |-> hd_text]>>

Row(u, t, rt, h) == (URL :> u) @@ (TOOL :> t) @@ (RTIME :> rt) @@ (RHEADERS :> h)

\* the data rows a CSV file is made of
Pool ==
    { Row(Val(u_query),   Val(t_scanner), Val(rt_jan2),     Val(h_feb1)),
      Row(Val(u_upper),   Val(t_Scanner), Val(rt_feb1),     NA),
      Row(Val(u_host),    Val(t_Scanner), Val(rt_dayfirst), Val(h_jan2)),
      Row(NA,             Val(t_scanner), Val(rt_jan2),     Val(h_badfirst)),
      Row(Val(u_rel),     Val(t_Scanner), NA,               Val(h_feb1)),
      Row(Val(u_bracket), Val(t_scanner), Val(rt_feb1),     Val(h_nodate)),
      Row(Val(u_host),    NA,             Val(rt_jan2),     Val(h_jan2)) }

\* the column sets of a file with a header row
ColChoices ==
    { DEFAULT_HEADERS, DEFAULT_HEADERS \ {URL}, DEFAULT_HEADERS \ {TOOL},
      DEFAULT_HEADERS \ {RTIME}, DEFAULT_HEADERS \ {RHEADERS} }

RowSeqs(k) == UNION {[1..n -> Pool] : n \in 1..k}

\* the CSV files that hold at most k data rows; those with a header row name
\* the columns hc
Files(k, hc) ==
    {[readable |-> FALSE, header |-> FALSE, cols |-> {}, rows |-> <<>>],
     [readable |-> TRUE, header |-> FALSE, cols |-> {}, rows |-> <<>>],
     [readable |-> TRUE, header |-> TRUE, cols |-> DEFAULT_HEADERS, rows |-> <<>>]}
    \cup {[readable |-> TRUE, header |-> TRUE, cols |-> hc, rows |-> r] : r \in RowSeqs(k)}
    \cup {[readable |-> TRUE, header |-> FALSE, cols |-> {}, rows |-> r] : r \in RowSeqs(k)}

\* what the user types at the two prompts: "", " CSS,,Js" and
\* "", "Scanner", " Scanner ,"
ExtInputs == {<<>>, <<" ", "C", "S", "S", ",", ",", "J", "s">>}
ToolInputs == {<<>>, <<"S", "c", "a", "n", "n", "e", "r">>, <<" ", "S", "c", "a", "n", "n", "e", "r", " ", ",">>}

\* the exclusion lists another caller of analyze_burp_log passes
ExtLists == {<<>>, <<<<"J", "S">>>>}
ToolLists == {<<>>, <<t_Scanner>>}

PathKinds == {"missing", "dir", "csv_file", "other_file", "special"}


\* ----------------------------------------------------------------- state
VARIABLES
    pc,                 \* position in main() / analyze_burp_log()
    caller,             \* "main", or "other" for a direct caller of the core
    path_kind,          \* what os.path says about path_input
    export_cols,        \* the columns that the header rows under the path name
    csv_files,          \* files of the directory still to load
    all_dfs,            \* main's list of loaded, non-empty frames
    exclude_extensions, \* the exclusion lists
    exclude_tools,
    master_df,          \* the caller's DataFrame object
    arg_df,             \* its value when analyze_burp_log was called
    df,                 \* the frame the name df is bound to in analyze_burp_log
    aliased,            \* whether df is the caller's object
    fell_back,          \* whether the branch of line 95 was taken
    analysis_data,      \* the counts computed by lines 112-146
    html_report,        \* "unset", "None" or "html"
    diag,               \* the terminal diagnostic printed, or "none"
    raised,             \* the exception that escaped, or "none"
    report_written,     \* whether the report file was written
    viewer_opened,
    exit_status         \* -1 while the process runs

vars == <<pc, caller, path_kind, export_cols, csv_files, all_dfs, exclude_extensions, exclude_tools,
          master_df, arg_df, df, aliased, fell_back, analysis_data, html_report,
          diag, raised, report_written, viewer_opened, exit_status>>

NoData == [set |-> FALSE]

Init ==
    /\ pc = "start"
    /\ caller = "none"
    /\ path_kind = "unknown"
    /\ export_cols \in ColChoices
    /\ csv_files = 0
    /\ all_dfs = <<>>
    /\ exclude_extensions = <<>>
    /\ exclude_tools = <<>>
    /\ master_df = EmptyFrame
    /\ arg_df = EmptyFrame
    /\ df = EmptyFrame
    /\ aliased = FALSE
    /\ fell_back = FALSE
    /\ analysis_data = NoData
    /\ html_report = "unset"
    /\ diag = "none"
    /\ raised = "none"
    /\ report_written = FALSE
    /\ viewer_opened = FALSE
    /\ exit_status = -1

core_vars == <<master_df, arg_df, df, aliased, fell_back, analysis_data, html_report>>
out_vars == <<report_written, viewer_opened, exit_status>>

\* ------------------------------------------------------------------ main
\* lines 297-305
MainCheckPath ==
    /\ pc = "start"
    /\ caller' = "main"
    /\ \E k \in PathKinds :
        /\ path_kind' = k
        /\ IF k = "missing"
           THEN diag' = "path_missing" /\ pc' = "ended"
           ELSE diag' = diag /\ pc' = "read_filters"
    /\ UNCHANGED <<export_cols, csv_files, all_dfs, exclude_extensions, exclude_tools, raised>>
    /\ UNCHANGED core_vars
    /\ UNCHANGED out_vars

\* lines 308-313
MainReadFilters ==
    /\ pc = "read_filters"
    /\ \E es \in ExtInputs, ts \in ToolInputs :
        /\ exclude_extensions' = parse_extensions(es)
        /\ exclude_tools' = parse_tools(ts)
    /\ pc' = "scan"
    /\ UNCHANGED <<caller, path_kind, export_cols, csv_files, all_dfs, diag, raised>>
    /\ UNCHANGED core_vars
    /\ UNCHANGED out_vars

\* lines 316-322
MainListDir ==
    /\ pc = "scan"
    /\ path_kind = "dir"
    /\ \E n \in 0..MaxFiles :
        /\ csv_files' = n
        /\ IF n = 0
           THEN diag' = "no_csv" /\ pc' = "ended"
           ELSE diag' = diag /\ pc' = "load_dir"
    /\ UNCHANGED <<caller, path_kind, export_cols, all_dfs, exclude_extensions, exclude_tools, raised>>
    /\ UNCHANGED core_vars
    /\ UNCHANGED out_vars

\* lines 323-328: one turn of the loop
MainLoadNext ==
    /\ pc = "load_dir"
    /\ csv_files > 0
    /\ \E f \in Files(MaxRecords - TotalRows(all_dfs), export_cols) :
        LET loaded == load_csv_safely(f)
        IN  all_dfs' = IF ~df_empty(loaded) THEN Append(all_dfs, loaded) ELSE all_dfs
    /\ csv_files' = csv_files - 1
    /\ pc' = IF csv_files = 1 THEN "concat" ELSE "load_dir"
    /\ UNCHANGED <<caller, path_kind, export_cols, exclude_extensions, exclude_tools, diag, raised>>
    /\ UNCHANGED core_vars
    /\ UNCHANGED out_vars

\* lines 330-336
MainLoadFile ==
    /\ pc = "scan"
    /\ path_kind \in {"csv_file", "other_file"}
    /\ IF path_kind = "other_file"
       THEN /\ diag' = "not_csv"
            /\ pc' = "ended"
            /\ all_dfs' = all_dfs
       ELSE /\ \E f \in Files(MaxRecords, export_cols) :
                LET loaded == load_csv_safely(f)
                IN  all_dfs' = IF ~df_empty(loaded) THEN <<loaded>> ELSE <<>>
            /\ diag' = diag
            /\ pc' = "concat"
    /\ UNCHANGED <<caller, path_kind, export_cols, csv_files, exclude_extensions, exclude_tools, raised>>
    /\ UNCHANGED core_vars
    /\ UNCHANGED out_vars

\* lines 337-339
MainInvalidPath ==
    /\ pc = "scan"
    /\ path_kind = "special"
    /\ diag' = "invalid_path"
    /\ pc' = "ended"
    /\ UNCHANGED <<caller, path_kind, export_cols, csv_files, all_dfs, exclude_extensions, exclude_tools, raised>>
    /\ UNCHANGED core_vars
    /\ UNCHANGED out_vars

\* lines 341-347: the merge and the call of analyze_burp_log
MainConcat ==
    /\ pc = "concat"
    /\ IF all_dfs = <<>>
       THEN /\ diag' = "no_data"
            /\ pc' = "ended"
            /\ UNCHANGED <<master_df, arg_df, df, aliased>>
       ELSE /\ master_df' = pd_concat(all_dfs)
            /\ arg_df' = master_df'
            /\ df' = master_df'
            /\ aliased' = TRUE
            /\ diag' = diag
            /\ pc' = "an_filter"
    /\ UNCHANGED <<caller, path_kind, export_cols, csv_files, all_dfs, exclude_extensions, exclude_tools, raised>>
    /\ UNCHANGED <<fell_back, analysis_data, html_report>>
    /\ UNCHANGED out_vars

\* another caller passes a frame and two lists to analyze_burp_log
CallCore ==
    /\ pc = "start"
    /\ caller' = "other"
    /\ \E f \in Files(1, export_cols), es \in ExtLists, ts \in ToolLists :
        /\ master_df' = load_csv_safely(f)
        /\ exclude_extensions' = es
        /\ exclude_tools' = ts
    /\ arg_df' = master_df'
    /\ df' = master_df'
    /\ aliased' = TRUE
    /\ pc' = "an_filter"
    /\ UNCHANGED <<path_kind, export_cols, csv_files, all_dfs, diag, raised>>
    /\ UNCHANGED <<fell_back, analysis_data, html_report>>
    /\ UNCHANGED out_vars


\* ------------------------------------------------------ analyze_burp_log
TIME == "Time"
TARGET == "Target"
DATE == "Date"

\* where control goes when analyze_burp_log returns, and when it raises: an
\* exception is caught nowhere in main
ReturnPc == IF caller = "main" THEN "returned" ELSE "core_done"
RaisePc == IF caller = "main" THEN "ended" ELSE "core_done"

\* lines 90-93
parse_request_time(d) ==
    IF RTIME \in d.cols
    THEN assign(d, TIME, [i \in 1..Len(d.rows) |-> to_datetime(d.rows[i][RTIME])])
    ELSE assign(d, TIME, [i \in 1..Len(d.rows) |-> NA])

\* line 95 with .any() for .all(): the fallback whenever some record is unresolved
use_fallback_any(d) == \E i \in 1..Len(d.rows) : IsNA(d.rows[i][TIME])

\* line 95: df['Time'].isnull().all()
use_fallback(d) == \A i \in 1..Len(d.rows) : IsNA(d.rows[i][TIME])

\* lines 98-100
header_times(d) ==
    LET d2 == assign(d, TIME, [i \in 1..Len(d.rows) |->
                                  extract_date_from_headers(d.rows[i][RHEADERS])])
    IN  IF \E i \in 1..Len(d2.rows) : ~IsNA(d2.rows[i][TIME])
        THEN assign(d2, TIME, [i \in 1..Len(d2.rows) |->
                                  IF IsNA(d2.rows[i][TIME]) THEN NA
                                  ELSE Val(tz_localize_none(d2.rows[i][TIME].v))])
        ELSE d2

\* lines 65-87
AnalyzeFilter ==
    /\ pc = "an_filter"
    /\ \E object_dtype \in BOOLEAN :
       IF df_empty(df)
       THEN /\ diag' = "initial_empty"
            /\ html_report' = "None"
            /\ pc' = ReturnPc
            /\ UNCHANGED <<df, aliased, raised>>
       ELSE IF filter_exception(df, exclude_extensions, exclude_tools, object_dtype) # "none"
       THEN /\ raised' = filter_exception(df, exclude_extensions, exclude_tools, object_dtype)
            /\ pc' = RaisePc
            /\ UNCHANGED <<df, aliased, diag, html_report>>
       ELSE LET f == apply_filters(df, exclude_extensions, exclude_tools)
            IN  /\ df' = f
                /\ aliased' = (aliased /\ ~filter_rebinds(exclude_extensions, exclude_tools))
                /\ raised' = raised
                /\ IF df_empty(f)
                   THEN diag' = "filtered_out" /\ html_report' = "None" /\ pc' = ReturnPc
                   ELSE IF missing_required(f)
                   THEN diag' = "missing_column" /\ html_report' = "None" /\ pc' = ReturnPc
                   ELSE diag' = diag /\ html_report' = html_report /\ pc' = "an_time"
    /\ UNCHANGED <<caller, path_kind, export_cols, csv_files, all_dfs, exclude_extensions, exclude_tools>>
    /\ UNCHANGED <<master_df, arg_df, fell_back, analysis_data>>
    /\ UNCHANGED out_vars

\* lines 89-109
AnalyzeTimestamps ==
    /\ pc = "an_time"
    /\ LET d1 == parse_request_time(df)
           fb == use_fallback(d1)
       IN  /\ fell_back' = fb
           /\ IF fb /\ RHEADERS \notin d1.cols
              THEN /\ df' = d1
                   /\ diag' = "no_headers_column"
                   /\ html_report' = "None"
                   /\ pc' = ReturnPc
              ELSE LET d2 == IF fb THEN header_times(d1) ELSE d1
                       d3 == dropna(d2, TIME)
                   IN  /\ df' = d3
                       /\ IF df_empty(d3)
                          THEN diag' = "no_timestamps" /\ html_report' = "None" /\ pc' = ReturnPc
                          ELSE diag' = diag /\ html_report' = html_report /\ pc' = "an_aggregate"
    /\ master_df' = IF aliased THEN df' ELSE master_df
    /\ UNCHANGED <<caller, path_kind, export_cols, csv_files, all_dfs, exclude_extensions, exclude_tools>>
    /\ UNCHANGED <<arg_df, aliased, analysis_data, raised>>
    /\ UNCHANGED out_vars

\* order of two naive datetimes
DtKey(t) == ((t.y * 12 + t.mo) * 31 + t.d) * 24 + t.H
min_time(rows) ==
    LET i == CHOOSE i \in 1..Len(rows) :
                 \A j \in 1..Len(rows) : DtKey(rows[i][TIME].v) <= DtKey(rows[j][TIME].v)
    IN  rows[i][TIME].v
max_time(rows) ==
    LET i == CHOOSE i \in 1..Len(rows) :
                 \A j \in 1..Len(rows) : DtKey(rows[i][TIME].v) >= DtKey(rows[j][TIME].v)
    IN  rows[i][TIME].v
\* strftime('%d/%m/%Y %H:%M:%S')
strftime_dmYH(t) == <<t.d, t.mo, t.y, t.H>>

\* line 115: urlparse raises on some row
target_raises(d) ==
    \E i \in 1..Len(d.rows) : ~IsNA(d.rows[i][URL]) /\ urlparse_raises(d.rows[i][URL].v)
with_target(d) == assign(d, TARGET, [i \in 1..Len(d.rows) |-> TargetOf(d.rows[i][URL])])
\* line 124
with_date(d) == assign(d, DATE, [i \in 1..Len(d.rows) |-> Val(dt_date(d.rows[i][TIME].v))])

\* lines 117, 118, 131
endpoint_counts_of(rows) == value_counts(rows, URL)
target_counts_of(rows) == value_counts(rows, TARGET)
tool_summary_of(rows) == value_counts(rows, TOOL)

\* lines 125-129
daily_summary_of(rows) ==
    LET keys == {strftime_Ymd(rows[i][DATE].v) : i \in 1..Len(rows)}
    IN  [k \in keys |->
            LET OnDay(r) == strftime_Ymd(r[DATE].v) = k
                sub == SelectSeq(rows, OnDay)
            IN  [total |-> Len(sub), tools |-> count_by(sub, TOOL)]]

\* f"{total / days:.2f}" as hundredths, rounded half to even
format_2f(total, days) ==
    LET q == (100 * total) \div days
        r == (100 * total) % days
    IN  IF 2 * r < days THEN q
        ELSE IF 2 * r > days THEN q + 1
        ELSE q + (q % 2)

\* the keys of df['Date'].value_counts() that idxmax() may return: one of the
\* dates with the highest count
peak_candidates(rows) ==
    LET vc == value_counts(rows, DATE)
    IN  {k \in DOMAIN vc : \A k2 \in DOMAIN vc : vc[k2] <= vc[k]}
\* df['Date'].value_counts().max()
peak_count(rows) ==
    LET vc == value_counts(rows, DATE)
    IN  CHOOSE n \in {vc[k] : k \in DOMAIN vc} : \A k2 \in DOMAIN vc : vc[k2] <= n

\* lines 134-146
productivity_metrics_of(rows, peak) ==
    LET total_requests == Len(rows)
        active_days == Cardinality(DOMAIN value_counts(rows, DATE))
    IN  [total_requests |-> total_requests,
         active_days |-> active_days,
         avg_req_per_day |-> IF active_days > 0 THEN format_2f(total_requests, active_days) ELSE 0,
         peak_day |-> strftime_dmY(peak.v),
         peak_day_count |-> peak_count(rows)]

\* lines 111-146
AnalyzeAggregate ==
    /\ pc = "an_aggregate"
    /\ IF target_raises(df)
       THEN /\ raised' = "ValueError"
            /\ pc' = RaisePc
            /\ UNCHANGED <<df, master_df, analysis_data>>
       ELSE LET d2 == with_date(with_target(df))
            IN  /\ df' = d2
                /\ master_df' = IF aliased THEN d2 ELSE master_df
                /\ \E peak \in peak_candidates(d2.rows) :
                    analysis_data' =
                        [set |-> TRUE,
                         date_range |-> <<strftime_dmYH(min_time(d2.rows)),
                                          strftime_dmYH(max_time(d2.rows))>>,
                         endpoint_counts |-> endpoint_counts_of(d2.rows),
                         target_counts |-> target_counts_of(d2.rows),
                         tool_summary |-> tool_summary_of(d2.rows),
                         daily_summary |-> daily_summary_of(d2.rows),
                         productivity_metrics |-> productivity_metrics_of(d2.rows, peak)]
                /\ raised' = raised
                /\ pc' = "an_render"
    /\ UNCHANGED <<caller, path_kind, export_cols, csv_files, all_dfs, exclude_extensions, exclude_tools>>
    /\ UNCHANGED <<arg_df, aliased, fell_back, html_report, diag>>
    /\ UNCHANGED out_vars

\* line 171: html.escape(t) of a tool key that is no str raises AttributeError
render_raises(data) ==
    \E k \in DOMAIN data.daily_summary : NA \in DOMAIN data.daily_summary[k].tools

\* lines 148-291
AnalyzeRender ==
    /\ pc = "an_render"
    /\ IF render_raises(analysis_data)
       THEN raised' = "AttributeError" /\ pc' = RaisePc /\ html_report' = html_report
       ELSE raised' = raised /\ pc' = ReturnPc /\ html_report' = "html"
    /\ UNCHANGED <<caller, path_kind, export_cols, csv_files, all_dfs, exclude_extensions, exclude_tools>>
    /\ UNCHANGED <<master_df, arg_df, df, aliased, fell_back, analysis_data, diag>>
    /\ UNCHANGED out_vars

\* ------------------------------------------------------- main, continued
\* line 349 testing "is not unset" instead of truth: None passes
should_write_not_unset(html) == html # "unset"

\* line 349: if html_report
should_write(html) == html = "html"

\* lines 349-366; open() or makedirs() may fail with OSError
MainWriteReport ==
    /\ pc = "returned"
    /\ IF should_write(html_report)
       THEN \E io_ok \in BOOLEAN :
              IF io_ok
              THEN report_written' = TRUE /\ viewer_opened' = TRUE /\ raised' = raised
              ELSE report_written' = FALSE /\ viewer_opened' = FALSE /\ raised' = "OSError"
       ELSE UNCHANGED <<report_written, viewer_opened, raised>>
    /\ pc' = "ended"
    /\ UNCHANGED <<caller, path_kind, export_cols, csv_files, all_dfs, exclude_extensions, exclude_tools, diag>>
    /\ UNCHANGED core_vars
    /\ UNCHANGED exit_status

\* lines 369-370: main() returns None and the interpreter exits 0; an uncaught
\* exception ends it with status 1
\* an exit status that also reports a terminal diagnostic
process_exit_status_diag(exc) == IF exc # "none" \/ diag # "none" THEN 1 ELSE 0

process_exit_status(exc) == IF exc # "none" THEN 1 ELSE 0

ProcessExit ==
    /\ pc = "ended"
    /\ exit_status' = process_exit_status(raised)
    /\ pc' = "exited"
    /\ UNCHANGED <<caller, path_kind, export_cols, csv_files, all_dfs, exclude_extensions, exclude_tools,
                   diag, raised, report_written, viewer_opened>>
    /\ UNCHANGED core_vars

Next ==
    \/ MainCheckPath
    \/ MainReadFilters
    \/ MainListDir
    \/ MainLoadNext
    \/ MainLoadFile
    \/ MainInvalidPath
    \/ MainConcat
    \/ CallCore
    \/ AnalyzeFilter
    \/ AnalyzeTimestamps
    \/ AnalyzeAggregate
    \/ AnalyzeRender
    \/ MainWriteReport
    \/ ProcessExit

Spec == Init /\ [][Next]_vars


\* ================================================================ claims
\* states in which analyze_burp_log has ended, by a return or by an exception
CoreEnded ==
    /\ pc \in {"returned", "core_done", "ended", "exited"}
    /\ (html_report # "unset" \/ raised \in {"KeyError", "ValueError", "AttributeError"})

\* states in which lines 70-87 ran to their end without an exception and
\* nothing has touched df since
FilterDone == pc = "an_time" \/ diag \in {"filtered_out", "missing_column"}

\* states in which lines 89-105 have run
TimeStageDone == TIME \in df.cols

ReportReturned == html_report = "html"

\* C1: for a non-empty record set that lacks the request-URL or the request-tool
\* column, whatever the exclusion lists, analyze_burp_log ends by returning
\* (None, None): it raises nothing and returns no report.
C1_MissingColumnReturnsNone ==
    (CoreEnded /\ ~df_empty(arg_df) /\ (URL \notin arg_df.cols \/ TOOL \notin arg_df.cols))
        => (html_report = "None" /\ raised = "none")

\* the filtered set of the call, and its primary resolution
C2_Filtered == apply_filters(arg_df, exclude_extensions, exclude_tools)
C2_Primary(r) == IF RTIME \in DOMAIN r THEN to_datetime(r[RTIME]) ELSE NA
C2_Resolved == {i \in 1..Len(C2_Filtered.rows) : ~IsNA(C2_Primary(C2_Filtered.rows[i]))}

\* C2: the Date-header fallback is taken if and only if no record of the filtered
\* set resolved from the request-time field; when some record did, the records
\* that go on to aggregation are exactly the resolved ones, each with the time
\* parsed from its request-time field, and a record whose request-time failed
\* is dropped even when its header block holds a valid Date line; under the
\* fallback every surviving time is the zone-stripped header date.
C2_FallbackIffNoneResolved ==
    TimeStageDone =>
      LET resolved == C2_Resolved
      IN
        /\ fell_back <=> (resolved = {})
        /\ resolved # {} =>
              /\ Len(df.rows) = Cardinality(resolved)
              /\ \A i \in 1..Len(df.rows) :
                    /\ ~IsNA(C2_Primary(df.rows[i]))
                    /\ df.rows[i][TIME] = C2_Primary(df.rows[i])
        /\ (fell_back /\ RHEADERS \in df.cols) =>
              \A i \in 1..Len(df.rows) :
                  LET h == extract_date_from_headers(df.rows[i][RHEADERS])
                  IN  ~IsNA(h) => df.rows[i][TIME] = Val(tz_localize_none(h.v))

\* one record resolved by its request-time, another did not although its
\* headers hold a valid Date line, and the second is gone
C2_Witness ==
    /\ pc = "an_aggregate"
    /\ ~fell_back
    /\ Len(df.rows) < Len(C2_Filtered.rows)
    /\ \E i \in 1..Len(C2_Filtered.rows) :
          /\ IsNA(C2_Primary(C2_Filtered.rows[i]))
          /\ RHEADERS \in DOMAIN C2_Filtered.rows[i]
          /\ ~IsNA(extract_date_from_headers(C2_Filtered.rows[i][RHEADERS]))

\* the URL cell ends with '.' + ext, compared without regard to case
C3_EndsWithDotExt(cell, ext) ==
    /\ ~IsNA(cell)
    /\ LET u == cell.v
           n == Len(ext) + 1
       IN  /\ Len(u) >= n
           /\ u[Len(u) - n + 1] = "."
           /\ \A j \in 1..Len(ext) : lower_char(u[Len(u) - Len(ext) + j]) = lower_char(ext[j])
C3_Keeps(r) ==
    /\ \A k \in 1..Len(exclude_extensions) : ~C3_EndsWithDotExt(r[URL], exclude_extensions[k])
    /\ \A k \in 1..Len(exclude_tools) : r[TOOL] # Val(exclude_tools[k])

\* C3: the filter stage keeps a record if and only if its URL does not end,
\* case-insensitively and as a suffix of the whole URL, with '.'+ext for any
\* excluded extension and its tool equals no excluded tool exactly.
C3_FilterKeepsExactly ==
    FilterDone => df.rows = SelectSeq(arg_df.rows, C3_Keeps)

\* 'js' and 'Scanner' are excluded: "http://x/a.JS?x=1" of tool 'scanner' is
\* kept, a record of tool 'Scanner' is removed
C3_Witness ==
    /\ pc = "an_time"
    /\ \E k \in 1..Len(exclude_extensions) : exclude_extensions[k] = <<"j", "s">>
    /\ exclude_tools = <<t_Scanner>>
    /\ \E i \in 1..Len(df.rows) : df.rows[i][URL] = Val(u_query) /\ df.rows[i][TOOL] = Val(t_scanner)
    /\ \E i \in 1..Len(arg_df.rows) : arg_df.rows[i][TOOL] = Val(t_Scanner)
    /\ Len(df.rows) < Len(arg_df.rows)

\* C4: in a returned report the endpoint counts sum to the number of records of
\* the filtered, time-resolved set ('Total Requests'), also when a record's URL
\* is null.
C4_EndpointCountsSumToTotal ==
    ReportReturned =>
        dict_sum(analysis_data.endpoint_counts) = analysis_data.productivity_metrics.total_requests

\* C5: in a returned report every record without a hostname is counted under a
\* null-target group, so the target counts sum to the size of the set.
C5_NullTargetGrouped ==
    ReportReturned =>
        /\ dict_sum(analysis_data.target_counts) = Len(df.rows)
        /\ (\E i \in 1..Len(df.rows) : IsNA(df.rows[i][TARGET]))
              => NA \in DOMAIN analysis_data.target_counts

\* C6: the report file is written, and the viewer opened, only when no terminal
\* diagnostic occurred and analyze_burp_log returned a report.
C6_ReportOnlyWithoutDiagnostic ==
    /\ report_written => (diag = "none" /\ html_report = "html" /\ raised = "none")
    /\ viewer_opened => report_written

\* a run of main that ended on the diagnostic of line 108 without a report file
C6_Witness ==
    /\ pc = "exited"
    /\ caller = "main"
    /\ diag = "no_timestamps"
    /\ ~report_written

\* C7 as stated: a run of main that ends on a terminal diagnostic exits with a
\* non-zero status, a run that produces a report with status zero.
C7_DiagnosticExitsNonZero ==
    (pc = "exited" /\ caller = "main") =>
        /\ diag # "none" => exit_status # 0
        /\ report_written => exit_status = 0

\* C7 amended: a run of main that ends on a terminal diagnostic exits with status
\* zero, like a run that writes a report; the status is non-zero exactly when an
\* exception escaped main.
C7_ExitStatusZeroUnlessRaised ==
    (pc = "exited" /\ caller = "main") =>
        /\ diag # "none" => exit_status = 0
        /\ report_written => exit_status = 0
        /\ exit_status # 0 <=> raised # "none"

C7_Witness ==
    /\ pc = "exited"
    /\ caller = "main"
    /\ diag = "filtered_out"
    /\ exit_status = 0

\* C8: analyze_burp_log leaves the caller's record set as it was at the call,
\* on every path and for every pair of exclusion lists.
C8_CallerFrameUnchanged == master_df = arg_df

\* C9: filtering the filtered set again with the same lists changes nothing.
C9_FilterIdempotent ==
    FilterDone => apply_filters(df, exclude_extensions, exclude_tools) = df

\* the filters removed a record and kept another
C9_Witness ==
    /\ pc = "an_time"
    /\ exclude_tools # <<>>
    /\ 0 < Len(df.rows)
    /\ Len(df.rows) < Len(arg_df.rows)

\* the date a '%d/%m/%Y' text names, as a key of daily_summary
C10_KeyOf(dmy) == <<dmy[3], dmy[2], dmy[1]>>

====
